---- MODULE Spec2Model ----
(***************************************************************************)
(* Model of mediaalpha/unnecessary_parentheses_removal.py: the pipeline    *)
(* tokenize -> shunt -> restore behind remove_unnecessary_parentheses.     *)
(* A string is a sequence of one-character strings, a token is a string,   *)
(* a token list is a sequence of tokens.  Each loop of the source is one   *)
(* iteration operator (TokenizeIter, ShuntIter, RestoreIter) that the      *)
(* actions apply to the state and that the pure operators Tokenize, Shunt  *)
(* and Restore iterate to the end.                                         *)
(***************************************************************************)
EXTENDS Integers, Sequences, FiniteSets, TLC

VARIABLES input, pc, chars, output, state, buf, tokens, operators,
          postfix_list, postfix_obj_list, idx, result

vars == <<input, pc, chars, output, state, buf, tokens, operators,
          postfix_list, postfix_obj_list, idx, result>>

\* ------------------------------------------------------------------ bounds
\* longest input string drawn from the whole alphabet (malformed input too)
MaxLen == 4
\* longest valid-expression shape (characters, every operand written "a")
MaxExprLen == 9
\* longest valid-expression shape that is also given with whitespace inserted
MaxSpacedLen == 5
\* most whitespace characters inserted into one such expression
MaxSpaces == 2
\* longest valid-expression shape that is also given with one ")" too many
MaxExtraLen == 5

\* ------------------------------------------------------- characters, table
OperatorChars == {"+", "-", "*", "/", "^"}
ParenChars == {"(", ")"}
Whitespace == {" "}
\* the characters the unrestricted input strings are drawn from: an operand
\* character, the operators, the parentheses and the whitespace
Alphabet == {"a"} \cup OperatorChars \cup ParenChars \cup Whitespace

\* operator_info[op].precedence
precedence(op) ==
  CASE op \in {"+", "-"} -> 0
    [] op \in {"*", "/"} -> 1
    [] op = "^" -> 2

\* operator_info[op].associativity
associativity(op) == IF op = "^" THEN "RIGHT" ELSE "LEFT"

\* the keys of operator_info, as tokens
operator_info == {<<c>> : c \in OperatorChars}

LPAREN == <<"(">>
RPAREN == <<")">>
\* the sentinel shunt appends to its argument
END == <<"e", "n", "d">>

\* ----------------------------------------------------------- list helpers
RECURSIVE Reverse(_)
\* operators[::-1]
Reverse(s) == IF s = <<>> THEN <<>> ELSE Reverse(Tail(s)) \o <<Head(s)>>

\* s[:n] of Python, 0 <= n <= len(s)
Prefix(s, n) == SubSeq(s, 1, n)

\* s[n:] of Python, 0 <= n <= len(s)
Suffix(s, n) == SubSeq(s, n + 1, Len(s))

\* s[-1]
Last(s) == s[Len(s)]

\* list.pop() leaves s[:-1]
Front(s) == SubSeq(s, 1, Len(s) - 1)

\* ---------------------------------------------------------------- tokenize
\* mutant: only the whitespace at the two ends is removed
Strip_EndsOnly(s) ==
  LET inner == {i \in 1..Len(s) : s[i] \notin Whitespace}
  IN  IF inner = {} THEN <<>>
      ELSE SubSeq(s, CHOOSE i \in inner : \A j \in inner : i <= j,
                     CHOOSE i \in inner : \A j \in inner : i >= j)

\* re.sub(r"\s+", "", input_string)
Strip(s) == SelectSeq(s, LAMBDA c : c \notin Whitespace)

\* mutant: the buffer is appended even when it is empty
Flush_Always(out, b) == Append(out, b)

\* output.append(buf) if buf != "" else False
Flush(out, b) == IF b # <<>> THEN Append(out, b) ELSE out

\* mutant: "-" starts a negative operand only in state OPERATOR
TokenizeIter_UnaryAfterOperatorOnly(t) ==
  LET char == Head(t.chars)
      rest == Tail(t.chars)
  IN  IF char \in ParenChars
      THEN [chars |-> rest, output |-> Append(Flush(t.output, t.buf), <<char>>),
            state |-> t.state, buf |-> <<>>]
      ELSE IF char \in OperatorChars
      THEN [chars |-> rest, output |-> Flush(t.output, t.buf),
            state |-> IF char = "-" /\ t.state = "OPERATOR"
                      THEN "OPERAND" ELSE "OPERATOR",
            buf |-> <<char>>]
      ELSE [chars |-> rest,
            output |-> IF t.state # "OPERAND" THEN Flush(t.output, t.buf) ELSE t.output,
            state |-> "OPERAND",
            buf |-> (IF t.state # "OPERAND" THEN <<>> ELSE t.buf) \o <<char>>]

\* one iteration of the while loop of tokenize (chars is not empty)
TokenizeIter(t) ==
  LET char == Head(t.chars)
      rest == Tail(t.chars)
  IN  IF char \in ParenChars
      THEN [chars |-> rest, output |-> Append(Flush(t.output, t.buf), <<char>>),
            state |-> t.state, buf |-> <<>>]
      ELSE IF char \in OperatorChars
      THEN [chars |-> rest, output |-> Flush(t.output, t.buf),
            state |-> IF char = "-" /\ (t.state = "OPERATOR" \/ t.state = "UNKNOWN")
                      THEN "OPERAND" ELSE "OPERATOR",
            buf |-> <<char>>]
      ELSE [chars |-> rest,
            output |-> IF t.state # "OPERAND" THEN Flush(t.output, t.buf) ELSE t.output,
            state |-> "OPERAND",
            buf |-> (IF t.state # "OPERAND" THEN <<>> ELSE t.buf) \o <<char>>]

\* the locals of tokenize before its loop
TokenizeEntry(s) ==
  [chars |-> Strip(s), output |-> <<>>, state |-> "UNKNOWN", buf |-> <<>>]

RECURSIVE TokenizeLoop(_)
\* the while loop of tokenize, then the last flush and the return
TokenizeLoop(t) ==
  IF Len(t.chars) # 0 THEN TokenizeLoop(TokenizeIter(t))
  ELSE Flush(t.output, t.buf)

\* tokenize(input_string)
Tokenize(s) == TokenizeLoop(TokenizeEntry(s))

\* ------------------------------------------------------------------- shunt
\* mutant: equal precedence pops whatever the associativity
satisfied_GreaterOrEqual(top, current_token) ==
  /\ top # LPAREN
  /\ precedence(top[1]) >= precedence(current_token[1])

\* mutant: only a greater precedence pops
satisfied_GreaterOnly(top, current_token) ==
  /\ top # LPAREN
  /\ precedence(top[1]) > precedence(current_token[1])

\* the test that pops the stack top for an incoming operator token
satisfied(top, current_token) ==
  /\ top # LPAREN
  /\ \/ precedence(top[1]) > precedence(current_token[1])
     \/ /\ precedence(top[1]) = precedence(current_token[1])
        /\ associativity(top[1]) = "LEFT"

RECURSIVE PopOperators(_, _, _)
\* the inner while loop for an operator token: [operators, output] after it
PopOperators(ops, out, current_token) ==
  IF Len(ops) = 0 THEN [operators |-> ops, output |-> out]
  ELSE IF ~satisfied(Last(ops), current_token) THEN [operators |-> ops, output |-> out]
  ELSE PopOperators(Front(ops), Append(out, Last(ops)), current_token)

\* mutant: a ")" with no "(" on the stack pops nothing
PopToParen_IgnoresUnmatched(ops, out) ==
  LET open == {k \in 1..Len(ops) : ops[k] = LPAREN}
  IN  IF open = {} THEN [operators |-> ops, output |-> out]
      ELSE LET top == CHOOSE k \in open : \A j \in open : j <= k
           IN  [operators |-> SubSeq(ops, 1, top),
                output |-> out \o Reverse(SubSeq(ops, top + 1, Len(ops)))]

RECURSIVE PopToParen(_, _)
\* the inner while loop for ")": [operators, output] after it
PopToParen(ops, out) ==
  IF Len(ops) = 0 THEN [operators |-> ops, output |-> out]
  ELSE IF Last(ops) = LPAREN THEN [operators |-> ops, output |-> out]
  ELSE PopToParen(Front(ops), Append(out, Last(ops)))

\* mutant: the "(" that stopped the pops stays on the stack
DiscardParen_Keeps(ops) == ops

\* if len(operators) != 0 and operators[-1] == "(": operators.pop()
DiscardParen(ops) ==
  IF Len(ops) # 0 /\ Last(ops) = LPAREN THEN Front(ops) ELSE ops

\* one iteration of the outer while loop of shunt (len(tokens) != 1)
ShuntIter(s) ==
  LET current_token == Head(s.tokens)
      rest == Tail(s.tokens)
  IN  IF current_token \in operator_info
      THEN LET p == PopOperators(s.operators, s.output, current_token)
           IN  [tokens |-> rest, operators |-> Append(p.operators, current_token),
                output |-> p.output]
      ELSE IF current_token = LPAREN
      THEN [tokens |-> rest, operators |-> Append(s.operators, current_token),
            output |-> s.output]
      ELSE IF current_token = RPAREN
      THEN LET p == PopToParen(s.operators, s.output)
           IN  [tokens |-> rest,
                operators |-> DiscardParen(p.operators),
                output |-> p.output]
      ELSE [tokens |-> rest, operators |-> s.operators,
            output |-> Append(s.output, current_token)]

\* the locals of shunt before its loop; the argument list gets the sentinel
ShuntEntry(toks) ==
  [tokens |-> toks \o <<END>>, operators |-> <<>>, output |-> <<>>]

\* output.extend(operators[::-1]); return output
ShuntExit(s) == s.output \o Reverse(s.operators)

RECURSIVE ShuntLoop(_)
\* the outer while loop of shunt and the return
ShuntLoop(s) ==
  IF Len(s.tokens) # 1 THEN ShuntLoop(ShuntIter(s)) ELSE ShuntExit(s)

\* shunt(tokens)
Shunt(toks) == ShuntLoop(ShuntEntry(toks))

\* ----------------------------------------------------------------- restore
\* an entry of postfix_obj_list is the tuple <<text, pivotal operator>>,
\* the pivotal operator of a basic operand being the empty string
NoPivot == <<>>

\* mutant: the left operand is parenthesized at equal precedence too
LeftText_GreaterEqual(op, L) ==
  IF L[2] # NoPivot /\ precedence(op[1]) >= precedence(L[2][1])
  THEN <<"(">> \o L[1] \o <<")">>
  ELSE L[1]

\* the left operand's text, parenthesized when the operator binds tighter
LeftText(op, L) ==
  IF L[2] # NoPivot /\ precedence(op[1]) > precedence(L[2][1])
  THEN <<"(">> \o L[1] \o <<")">>
  ELSE L[1]

\* mutant: the right operand is parenthesized only when the operator binds
\* tighter
RightText_PrecedenceOnly(op, R) ==
  IF R[2] # NoPivot /\ precedence(op[1]) > precedence(R[2][1])
  THEN <<"(">> \o R[1] \o <<")">>
  ELSE R[1]

\* the right operand's text, parenthesized when the operator binds tighter
\* or binds equally and is "-" or "/"
RightText(op, R) ==
  IF R[2] # NoPivot
  THEN IF \/ precedence(op[1]) > precedence(R[2][1])
          \/ /\ precedence(op[1]) = precedence(R[2][1])
             /\ (op = <<"/">> \/ op = <<"-">>)
       THEN <<"(">> \o R[1] \o <<")">>
       ELSE R[1]
  ELSE R[1]

\* mutant: the operator is not added between the two operands
NewExpr_NoOperator(L, op, R) == LeftText(op, L) \o RightText(op, R)

\* mutant: the entries at idx - 1 and idx - 2 are taken for each other
NewExpr_Swapped(L, op, R) == LeftText(op, R) \o op \o RightText(op, L)

\* new_expr for the operator at idx and the two entries before it
NewExpr(L, op, R) == LeftText(op, L) \o op \o RightText(op, R)

\* mutant: the new entry gets the dummy pivotal operator of a basic operand
RestoreIter_NoPivot(r) ==
  LET lst == r.postfix_obj_list
      i == r.idx
      cur == lst[i + 1]
  IN  IF cur[1] \in operator_info
      THEN IF i >= 2
           THEN [postfix_obj_list |->
                    Prefix(lst, i - 2)
                    \o << <<NewExpr(lst[i - 1], cur[1], lst[i]), NoPivot>> >>
                    \o Suffix(lst, i + 1),
                 idx |-> i - 2]
           ELSE r
      ELSE [postfix_obj_list |-> lst, idx |-> i + 1]

\* mutant: the splice keeps the operator entry (postfix_obj_list[idx:])
RestoreIter_KeepsOperator(r) ==
  LET lst == r.postfix_obj_list
      i == r.idx
      cur == lst[i + 1]
  IN  IF cur[1] \in operator_info
      THEN IF i >= 2
           THEN [postfix_obj_list |->
                    Prefix(lst, i - 2)
                    \o << <<NewExpr(lst[i - 1], cur[1], lst[i]), cur[1]>> >>
                    \o Suffix(lst, i),
                 idx |-> i - 2]
           ELSE r
      ELSE [postfix_obj_list |-> lst, idx |-> i + 1]

\* one iteration of the while loop of restore (idx < len(postfix_obj_list));
\* idx counts from 0 as in the source
RestoreIter(r) ==
  LET lst == r.postfix_obj_list
      i == r.idx
      cur == lst[i + 1]
  IN  IF cur[1] \in operator_info
      THEN IF i >= 2
           THEN [postfix_obj_list |->
                    Prefix(lst, i - 2)
                    \o << <<NewExpr(lst[i - 1], cur[1], lst[i]), cur[1]>> >>
                    \o Suffix(lst, i + 1),
                 idx |-> i - 2]
           ELSE r
      ELSE [postfix_obj_list |-> lst, idx |-> i + 1]

\* the locals of restore before its loop
RestoreEntry(pf) ==
  [postfix_obj_list |-> [k \in 1..Len(pf) |-> <<pf[k], NoPivot>>], idx |-> 0]

\* return postfix_obj_list[0][0]: IndexError on the empty list
RestoreExit(r) ==
  IF Len(r.postfix_obj_list) = 0
  THEN [status |-> "IndexError", text |-> <<>>]
  ELSE [status |-> "ok", text |-> r.postfix_obj_list[1][1]]

RECURSIVE RestoreLoop(_)
\* the while loop of restore and the return; an iteration that changes
\* nothing repeats for ever (status "loops")
RestoreLoop(r) ==
  IF r.idx < Len(r.postfix_obj_list)
  THEN IF RestoreIter(r) = r THEN [status |-> "loops", text |-> <<>>]
       ELSE RestoreLoop(RestoreIter(r))
  ELSE RestoreExit(r)

\* restore(postfix_list)
Restore(pf) == RestoreLoop(RestoreEntry(pf))

\* remove_unnecessary_parentheses(input_expr)
RemoveUnnecessaryParentheses(s) == Restore(Shunt(Tokenize(s)))

\* ---------------------------------------------------------- input strings
\* every string over Alphabet of at most MaxLen characters
AllStrings == UNION {[1..n -> Alphabet] : n \in 0..MaxLen}

\* the valid expressions of exactly k characters with every operand written
\* "a": operand, "-" directly in front of an operand, binary operators,
\* balanced parentheses
ValidShapesOfLen[k \in 0..MaxExprLen] ==
  (IF k = 1 THEN {<<"a">>} ELSE {})
  \cup (IF k = 2 THEN {<<"-", "a">>} ELSE {})
  \cup (IF k >= 3
        THEN {<<"(">> \o e \o <<")">> : e \in ValidShapesOfLen[k - 2]}
             \cup UNION {
                  {l \o <<op>> \o r : l \in ValidShapesOfLen[i],
                                     r \in ValidShapesOfLen[k - 1 - i],
                                     op \in OperatorChars}
                  : i \in 1..(k - 2)}
        ELSE {})

ValidShapes == UNION {ValidShapesOfLen[k] : k \in 1..MaxExprLen}

\* the name given to the k-th operand of a shape (the first has two characters)
OperandName(k) ==
  IF k = 1 THEN <<"x", "1">> ELSE << <<"y", "z", "w", "v", "u", "t">>[k - 1] >>

RECURSIVE Relabel(_, _)
\* the shape with its operands named apart, the next one being the k-th
Relabel(s, k) ==
  IF s = <<>> THEN <<>>
  ELSE IF Head(s) = "a" THEN OperandName(k) \o Relabel(Tail(s), k + 1)
  ELSE <<Head(s)>> \o Relabel(Tail(s), k)

ValidInputs == {Relabel(e, 1) : e \in ValidShapes}

RECURSIVE InsertAt(_, _, _)
\* s with a blank inserted at the gaps in G, the gap in front of s being k
InsertAt(s, G, k) ==
  (IF k \in G THEN <<" ">> ELSE <<>>)
  \o (IF s = <<>> THEN <<>> ELSE <<Head(s)>> \o InsertAt(Tail(s), G, k + 1))

\* the valid expressions of at most MaxSpacedLen shape characters with at
\* most MaxSpaces blanks inserted anywhere, inside the operand x1 too
SpacedInputs ==
  UNION {
    {InsertAt(Relabel(e, 1), G, 0) :
       G \in {H \in SUBSET (0..Len(Relabel(e, 1))) : Cardinality(H) <= MaxSpaces}}
    : e \in UNION {ValidShapesOfLen[k] : k \in 1..MaxSpacedLen}}

\* the valid expressions of at most MaxExtraLen shape characters with one
\* ")" inserted anywhere
ExtraParenInputs ==
  UNION {
    {SubSeq(Relabel(e, 1), 1, g) \o <<")">>
       \o SubSeq(Relabel(e, 1), g + 1, Len(Relabel(e, 1)))
       : g \in 0..Len(Relabel(e, 1))}
    : e \in UNION {ValidShapesOfLen[k] : k \in 1..MaxExtraLen}}

\* the expressions that run_test passes to remove_unnecessary_parentheses
TestInputs ==
  {
    <<"1", " ", "+", " ", " ", "(", "2", " ", "*", " ", "3", ")">>,
    <<"1", "*", "(", "2", "+", "(", "3", "*", "(", "4", "+", "5", ")", ")",
      ")">>,
    <<"2", " ", "+", " ", "(", "3", " ", "/", " ", "-", "5", ")">>,
    <<"(", "2", " ", "+", " ", "(", "(", "3", " ", "/", " ", "(", "-", "5",
      ")", ")", ")", ")">>,
    <<"x", "1", "2", "3", "+", "(", "y", "+", "z", ")", "+", "(", "t", "+",
      "(", "v", "+", "w", ")", ")">>,
    <<"2", " ", "+", " ", "(", "3", "^", "3", ")">>,
    <<"-", "2", " ", "+", " ", "(", "3", " ", "-", " ", "2", ")", " ", "-",
      " ", "2", "*", " ", "3">>,
    <<"-", "2", " ", "+", " ", "(", "3", " ", "*", " ", "2", ")", " ", "-",
      " ", "2", "*", " ", "3">>,
    <<"7", "+", "1", "2", "/", "(", "4", "*", "2", ")">>,
    <<"-", "1", "4", "-", "1", "2", "/", "(", "4", "/", "2", ")">>,
    <<"(", "x", "1", "+", "y", "1", ")", "*", "(", "x", "2", "*", "y", "2",
      "-", "(", "x", "3", "*", "y", "3", ")", ")">>
  }

IsOperandChar(c) == c \notin OperatorChars \cup ParenChars \cup Whitespace

RECURSIVE ShapeFrom(_, _)
\* s with every run of operand characters replaced by one "a"
ShapeFrom(s, inOperand) ==
  IF s = <<>> THEN <<>>
  ELSE IF IsOperandChar(Head(s))
       THEN (IF inOperand THEN <<>> ELSE <<"a">>) \o ShapeFrom(Tail(s), TRUE)
       ELSE <<Head(s)>> \o ShapeFrom(Tail(s), FALSE)

RECURSIVE ValidShapeFrom(_, _, _)
\* the rest sh of a shape completes a valid expression: wantOperand says
\* whether an operand or an operator comes next, depth counts the open
\* parentheses
ValidShapeFrom(sh, wantOperand, depth) ==
  IF sh = <<>> THEN ~wantOperand /\ depth = 0
  ELSE IF wantOperand
  THEN IF Head(sh) = "a" THEN ValidShapeFrom(Tail(sh), FALSE, depth)
       ELSE IF Head(sh) = "(" THEN ValidShapeFrom(Tail(sh), TRUE, depth + 1)
       ELSE IF Head(sh) = "-" /\ Len(sh) >= 2 /\ sh[2] = "a"
            THEN ValidShapeFrom(Tail(Tail(sh)), FALSE, depth)
       ELSE FALSE
  ELSE IF Head(sh) \in OperatorChars THEN ValidShapeFrom(Tail(sh), TRUE, depth)
       ELSE IF Head(sh) = ")" /\ depth > 0 THEN ValidShapeFrom(Tail(sh), FALSE, depth - 1)
       ELSE FALSE

\* s is a valid expression: operands, binary operators, balanced
\* parentheses, "-" as a sign only directly in front of an operand;
\* whitespace is ignored
IsValid(s) == ValidShapeFrom(ShapeFrom(Strip(s), FALSE), TRUE, 0)

\* ------------------------------------------------------------ the program
Init ==
  /\ input \in AllStrings \cup ValidInputs \cup SpacedInputs \cup ExtraParenInputs
              \cup TestInputs
  /\ pc = "start"
  /\ chars = <<>>
  /\ output = <<>>
  /\ state = "UNKNOWN"
  /\ buf = <<>>
  /\ tokens = <<>>
  /\ operators = <<>>
  /\ postfix_list = <<>>
  /\ postfix_obj_list = <<>>
  /\ idx = 0
  /\ result = <<>>

\* the locals of tokenize, shunt and restore as the records the iteration
\* operators take
TokenizeFrame == [chars |-> chars, output |-> output, state |-> state, buf |-> buf]
ShuntFrame == [tokens |-> tokens, operators |-> operators, output |-> output]
RestoreFrame == [postfix_obj_list |-> postfix_obj_list, idx |-> idx]

\* remove_unnecessary_parentheses calls tokenize(input_expr)
TokenizeCall ==
  /\ pc = "start"
  /\ LET t == TokenizeEntry(input)
     IN  /\ chars' = t.chars
         /\ output' = t.output
         /\ state' = t.state
         /\ buf' = t.buf
  /\ pc' = "tokenize"
  /\ UNCHANGED <<input, tokens, operators, postfix_list, postfix_obj_list, idx, result>>

\* one iteration of the loop of tokenize
TokenizeStep ==
  /\ pc = "tokenize"
  /\ Len(chars) # 0
  /\ LET t == TokenizeIter(TokenizeFrame)
     IN  /\ chars' = t.chars
         /\ output' = t.output
         /\ state' = t.state
         /\ buf' = t.buf
  /\ UNCHANGED <<input, pc, tokens, operators, postfix_list, postfix_obj_list, idx, result>>

\* tokenize flushes the buffer and returns its output: the token list that
\* remove_unnecessary_parentheses hands to shunt
TokenizeReturn ==
  /\ pc = "tokenize"
  /\ Len(chars) = 0
  /\ output' = Flush(output, buf)
  /\ tokens' = output'
  /\ pc' = "call_shunt"
  /\ UNCHANGED <<input, chars, state, buf, operators, postfix_list, postfix_obj_list,
                 idx, result>>

\* shunt appends the sentinel to its argument and creates its locals
ShuntCall ==
  /\ pc = "call_shunt"
  /\ LET s == ShuntEntry(tokens)
     IN  /\ tokens' = s.tokens
         /\ operators' = s.operators
         /\ output' = s.output
  /\ pc' = "shunt"
  /\ UNCHANGED <<input, chars, state, buf, postfix_list, postfix_obj_list, idx, result>>

\* one iteration of the outer loop of shunt
ShuntStep ==
  /\ pc = "shunt"
  /\ Len(tokens) # 1
  /\ LET s == ShuntIter(ShuntFrame)
     IN  /\ tokens' = s.tokens
         /\ operators' = s.operators
         /\ output' = s.output
  /\ UNCHANGED <<input, pc, chars, state, buf, postfix_list, postfix_obj_list, idx, result>>

\* shunt empties the stack into its output and returns it: the postfix list
\* that remove_unnecessary_parentheses hands to restore
ShuntReturn ==
  /\ pc = "shunt"
  /\ Len(tokens) = 1
  /\ output' = ShuntExit(ShuntFrame)
  /\ postfix_list' = output'
  /\ pc' = "call_restore"
  /\ UNCHANGED <<input, chars, state, buf, tokens, operators, postfix_obj_list, idx, result>>

\* restore pairs every entry with the dummy pivotal operator
RestoreCall ==
  /\ pc = "call_restore"
  /\ LET r == RestoreEntry(postfix_list)
     IN  /\ postfix_obj_list' = r.postfix_obj_list
         /\ idx' = r.idx
  /\ pc' = "restore"
  /\ UNCHANGED <<input, chars, output, state, buf, tokens, operators, postfix_list, result>>

\* one iteration of the loop of restore; at an operator with fewer than two
\* entries before it the iteration changes nothing and is repeated
RestoreStep ==
  /\ pc = "restore"
  /\ idx < Len(postfix_obj_list)
  /\ LET r == RestoreIter(RestoreFrame)
     IN  /\ postfix_obj_list' = r.postfix_obj_list
         /\ idx' = r.idx
  /\ UNCHANGED <<input, pc, chars, output, state, buf, tokens, operators, postfix_list,
                 result>>

\* restore returns the text of the first entry, or raises IndexError
RestoreReturn ==
  /\ pc = "restore"
  /\ idx >= Len(postfix_obj_list)
  /\ LET x == RestoreExit(RestoreFrame)
     IN  /\ result' = x.text
         /\ pc' = IF x.status = "ok" THEN "done" ELSE "raised"
  /\ UNCHANGED <<input, chars, output, state, buf, tokens, operators, postfix_list,
                 postfix_obj_list, idx>>

Next ==
  \/ TokenizeCall
  \/ TokenizeStep
  \/ TokenizeReturn
  \/ ShuntCall
  \/ ShuntStep
  \/ ShuntReturn
  \/ RestoreCall
  \/ RestoreStep
  \/ RestoreReturn

Spec == Init /\ [][Next]_vars

\* ------------------------------------------------- vocabulary of the claims
IsOp(t) == t \in operator_info

\* shunt(tokenize(s))
Postfix(s) == Shunt(Tokenize(s))

RECURSIVE StackDepths(_, _)
\* the stack depths of the two-operand stack machine along pf, started at
\* depth d: an operand pushes one value, an operator pops two and pushes
\* one; -1 marks an underflow
StackDepths(pf, d) ==
  IF pf = <<>> THEN <<d>>
  ELSE IF IsOp(Head(pf))
       THEN IF d < 2 THEN <<-1>> ELSE <<d>> \o StackDepths(Tail(pf), d - 1)
       ELSE <<d>> \o StackDepths(Tail(pf), d + 1)

\* the stack machine evaluates pf without underflow to exactly one value
WellFormedPostfix(pf) == Last(StackDepths(pf, 0)) = 1

RECURSIVE ScanBack(_, _, _)
ScanBack(pf, j, need) ==
  LET need2 == IF IsOp(pf[j]) THEN need + 1 ELSE need - 1
  IN  IF need2 = 0 THEN j ELSE ScanBack(pf, j - 1, need2)

\* in a well-formed postfix, the first index of the sub-expression that ends
\* at index j
SubStart(pf, j) == ScanBack(pf, j, 1)

\* some "+" or "*" of the expression tree pf has a right operand whose top
\* operator has the same precedence, or some "^" has a left operand whose
\* top operator is "^"
Regrouped(pf) ==
  \E j \in 1..Len(pf) :
    /\ IsOp(pf[j])
    /\ \/ /\ pf[j] \in {<<"+">>, <<"*">>}
          /\ IsOp(pf[j - 1])
          /\ precedence(pf[j - 1][1]) = precedence(pf[j][1])
       \/ /\ pf[j] = <<"^">>
          /\ pf[SubStart(pf, j - 1) - 1] = <<"^">>

RECURSIVE Rotate(_, _, _)
\* the tree L op R, L and R normal, with x+(y+z), x+(y-z), x*(y*z) and
\* x*(y/z) regrouped to the left
Rotate(L, op, R) ==
  IF /\ op \in {<<"+">>, <<"*">>}
     /\ Len(R) > 1
     /\ precedence(Last(R)[1]) = precedence(op[1])
  THEN LET m == Len(R)
           s == SubStart(R, m - 1)
       IN  Rotate(L, op, SubSeq(R, 1, s - 1)) \o SubSeq(R, s, m - 1) \o <<R[m]>>
  ELSE L \o R \o <<op>>

RECURSIVE Normal(_)
\* the expression tree pf (a well-formed postfix) regrouped to the left at
\* every "+" and "*" whose right operand has a top operator of the same
\* precedence
Normal(pf) ==
  IF Len(pf) <= 1 THEN pf
  ELSE LET n == Len(pf)
           s == SubStart(pf, n - 1)
       IN  Rotate(Normal(SubSeq(pf, 1, s - 1)), pf[n], Normal(SubSeq(pf, s, n - 1)))

\* the token list without its parentheses
DropParens(toks) == SelectSeq(toks, LAMBDA t : t \notin {LPAREN, RPAREN})

RECURSIVE FindClose(_, _, _)
FindClose(s, j, depth) ==
  LET d == IF s[j] = "(" THEN depth + 1 ELSE IF s[j] = ")" THEN depth - 1 ELSE depth
  IN  IF d = 0 THEN j ELSE FindClose(s, j + 1, d)

\* the index of the ")" that matches the "(" at index i of a balanced string
MatchClose(s, i) == FindClose(s, i + 1, 1)

\* s without the characters at i and j, i < j
DeletePair(s, i, j) ==
  SubSeq(s, 1, i - 1) \o SubSeq(s, i + 1, j - 1) \o SubSeq(s, j + 1, Len(s))

OpenParens(s) == {i \in 1..Len(s) : s[i] = "("}

RECURSIVE DeleteAt(_, _, _)
\* s without the characters at the indices in D, the head of s having index k
DeleteAt(s, D, k) ==
  IF s = <<>> THEN <<>>
  ELSE (IF k \in D THEN <<>> ELSE <<Head(s)>>) \o DeleteAt(Tail(s), D, k + 1)

\* the strings that s comes from by inserting whitespace
WithoutSomeWhitespace(s) ==
  {DeleteAt(s, D, 1) : D \in SUBSET {i \in 1..Len(s) : s[i] \in Whitespace}}

\* remove_unnecessary_parentheses has returned for a valid expression
DoneValid == pc = "done" /\ IsValid(input)

\* the loop of restore is at an iteration that changes nothing
RestoreSpins ==
  /\ pc = "restore"
  /\ idx < Len(postfix_obj_list)
  /\ RestoreIter(RestoreFrame) = RestoreFrame

\* ---------------------------------------------------------------------- C1
\* C1 as stated, for the expressions without "^": for every valid expression
\* e, shunt(tokenize(e)) is the same token sequence as
\* shunt(tokenize(remove_unnecessary_parentheses(e))).
C1_SamePostfix ==
  (DoneValid /\ \A i \in 1..Len(input) : input[i] # "^") =>
    Postfix(result) = postfix_list

\* C1 as amended: for every valid expression e, the two postfix sequences are
\* the same exactly when the expression tree of e has no "+" or "*" whose
\* right operand has a top operator of the same precedence and no "^" whose
\* left operand has the top operator "^".
C1_SamePostfixUnlessRegrouped ==
  DoneValid => (Postfix(result) = postfix_list <=> ~Regrouped(postfix_list))

\* a parenthesized right operand of "-" with top operator "-" was kept and a
\* doubled pair removed
C1_Witness ==
  /\ DoneValid
  /\ ~Regrouped(postfix_list)
  /\ Len(postfix_list) >= 5
  /\ result # Strip(input)
  /\ \E i \in 1..Len(result) : result[i] = "("

\* ---------------------------------------------------------------------- C2
\* C2: for every valid expression e the output parses to the expression tree
\* of e up to the regroupings x+(y+z)=(x+y)+z, x+(y-z)=(x+y)-z,
\* x*(y*z)=(x*y)*z and x*(y/z)=(x*y)/z.
C2_EquivalentTree == DoneValid => Normal(Postfix(result)) = Normal(postfix_list)

\* ---------------------------------------------------------------------- C3
\* C3: for every valid expression e, the tokens of the output without the
\* parentheses are the tokens of e without the parentheses.
C3_SameOperandsAndOperators ==
  DoneValid => DropParens(Tokenize(result)) = DropParens(Tokenize(input))

\* an output of three operands, one of them negative, that lost parentheses
C3_Witness ==
  /\ DoneValid
  /\ Len(postfix_list) >= 5
  /\ \E k \in 1..Len(postfix_list) :
       Len(postfix_list[k]) = 2 /\ postfix_list[k][1] = "-"
  /\ Len(result) < Len(Strip(input))

\* ---------------------------------------------------------------------- C4
\* C4: for every valid expression e, deleting any one matching pair of
\* parentheses from the output changes its postfix sequence.
C4_Minimal ==
  DoneValid =>
    \A i \in OpenParens(result) :
      Postfix(DeletePair(result, i, MatchClose(result, i))) # Postfix(result)

\* an output that keeps two pairs of parentheses
C4_Witness == DoneValid /\ Cardinality(OpenParens(result)) >= 2

\* ---------------------------------------------------------------------- C5
\* C5: for every valid expression e with output r, the output of r has the
\* postfix sequence of r.
C5_Idempotent ==
  DoneValid =>
    LET again == RemoveUnnecessaryParentheses(result)
    IN  again.status = "ok" /\ Postfix(again.text) = Postfix(result)

\* an output that lost parentheses and kept some
C5_Witness ==
  /\ DoneValid
  /\ Len(result) < Len(Strip(input))
  /\ OpenParens(result) # {}
  /\ Len(postfix_list) >= 5

\* ---------------------------------------------------------------------- C6
\* C6: restore finishes on every input: its loop never reaches an iteration
\* that changes nothing (which the loop then repeats for ever).
C6_RestoreFinishes == ~RestoreSpins

\* ---------------------------------------------------------------------- C7
\* C7: for the empty and for a whitespace-only string tokenize and shunt
\* return the empty sequence and remove_unnecessary_parentheses returns the
\* empty string without raising.
C7_EmptyInput ==
  Strip(input) = <<>> =>
    /\ pc = "call_shunt" => tokens = <<>>
    /\ pc = "call_restore" => postfix_list = <<>>
    /\ pc # "raised"
    /\ pc = "done" => result = <<>>

\* ---------------------------------------------------------------------- C8
\* C8: the output for a string is the output for every string it comes from
\* by inserting whitespace, and contains no whitespace.
C8_WhitespaceInsensitive ==
  pc = "done" =>
    /\ \A e \in WithoutSomeWhitespace(input) :
         RemoveUnnecessaryParentheses(e) = [status |-> "ok", text |-> result]
    /\ \A i \in 1..Len(result) : result[i] \notin Whitespace

\* an input with whitespace inside an operand and in front of an operator
C8_Witness ==
  /\ pc = "done"
  /\ \E i \in 2..(Len(input) - 1) :
       /\ input[i] \in Whitespace
       /\ IsOperandChar(input[i - 1])
       /\ IsOperandChar(input[i + 1])
  /\ \E i \in 1..(Len(input) - 1) :
       input[i] \in Whitespace /\ input[i + 1] \in OperatorChars

\* ---------------------------------------------------------------------- C9
\* 2 * len(postfix_obj_list) - idx: what every iteration of restore lowers
RestoreMeasure(r) == 2 * Len(r.postfix_obj_list) - r.idx

\* C9: on a well-formed postfix sequence every collapse of restore shortens
\* the list by two entries, every iteration lowers RestoreMeasure and leads
\* to no iteration that changes nothing (so the loop ends), and at the return
\* one entry is left whose text is the result.
C9_RestoreTerminates ==
  [][ /\ (pc' = "restore" /\ WellFormedPostfix(postfix_list')) => ~RestoreSpins'
      /\ (pc = "restore" /\ WellFormedPostfix(postfix_list)) =>
           /\ (pc' = "restore" /\ IsOp(postfix_obj_list[idx + 1][1])) =>
                Len(postfix_obj_list') = Len(postfix_obj_list) - 2
           /\ pc' = "restore" =>
                /\ RestoreMeasure(RestoreFrame') < RestoreMeasure(RestoreFrame)
                /\ RestoreMeasure(RestoreFrame') >= 0
           /\ pc' # "restore" =>
                /\ pc' = "done"
                /\ Len(postfix_obj_list) = 1
                /\ result' = postfix_obj_list[1][1]
    ]_vars

\* restore has collapsed one operator of a well-formed postfix sequence and
\* has another to go
C9_Witness ==
  /\ pc = "restore"
  /\ WellFormedPostfix(postfix_list)
  /\ Len(postfix_list) >= 5
  /\ Len(postfix_obj_list) = Len(postfix_list) - 2

\* --------------------------------------------------------------------- C10
\* C10: for the tokens of a valid expression the output of shunt has no
\* parenthesis and the two-operand stack machine evaluates it without
\* underflow to exactly one value.
C10_PostfixWellFormed ==
  (pc = "call_restore" /\ IsValid(input)) =>
    /\ \A k \in 1..Len(postfix_list) : postfix_list[k] \notin {LPAREN, RPAREN}
    /\ WellFormedPostfix(postfix_list)

\* shunt has returned for a valid expression with nested parentheses
C10_Witness ==
  /\ pc = "call_restore"
  /\ IsValid(input)
  /\ Len(postfix_list) >= 5
  /\ \E i \in 1..(Len(input) - 1) : input[i] = "(" /\ input[i + 1] = "("

\* --------------------------------------------------------------------- C11
RECURSIVE Render(_)
\* the standard construction: the expression tree of the well-formed postfix
\* pf (its last token the root, the sub-expression before it the right
\* child, the one before that the left child) rendered top-down; a child is
\* parenthesized only if it is an operator node, the left one when the
\* root's precedence is greater, the right one when it is greater, or equal
\* with the root "-" or "/"
Render(pf) ==
  IF Len(pf) <= 1 THEN pf[1]
  ELSE LET n == Len(pf)
           op == pf[n]
           s == SubStart(pf, n - 1)
           L == SubSeq(pf, 1, s - 1)
           R == SubSeq(pf, s, n - 1)
           wrapL == Len(L) > 1 /\ precedence(op[1]) > precedence(Last(L)[1])
           wrapR == /\ Len(R) > 1
                    /\ \/ precedence(op[1]) > precedence(Last(R)[1])
                       \/ /\ precedence(op[1]) = precedence(Last(R)[1])
                          /\ op \in {<<"-">>, <<"/">>}
       IN  (IF wrapL THEN <<"(">> \o Render(L) \o <<")">> ELSE Render(L))
           \o op
           \o (IF wrapR THEN <<"(">> \o Render(R) \o <<")">> ELSE Render(R))

\* C11: for every well-formed postfix sequence restore returns the string
\* that the standard construction gives: the binary expression tree built
\* with an operand stack and rendered top-down under the left-wrap and
\* right-wrap rules.
C11_RestoreIsTreeRendering ==
  (pc = "done" /\ WellFormedPostfix(postfix_list)) => result = Render(postfix_list)

\* restore has returned a string with a parenthesized left operand and a
\* parenthesized right operand
C11_Witness ==
  /\ pc = "done"
  /\ WellFormedPostfix(postfix_list)
  /\ result[1] = "("
  /\ Last(result) = ")"
  /\ Cardinality(OpenParens(result)) >= 2

\* --------------------------------------------------------------------- C12
RECURSIVE Concat(_)
\* the concatenation of the tokens of a token list
Concat(toks) == IF toks = <<>> THEN <<>> ELSE Head(toks) \o Concat(Tail(toks))

\* C12: at every step of tokenize the tokens emitted so far, the buffer and
\* the unread characters concatenate to the whitespace-stripped input; the
\* returned tokens concatenate to it, and no token is empty.
C12_TokensConcatenateToInput ==
  /\ pc = "tokenize" =>
       /\ Concat(output) \o buf \o chars = Strip(input)
       /\ \A k \in 1..Len(output) : output[k] # <<>>
  /\ pc = "call_shunt" =>
       /\ Concat(tokens) = Strip(input)
       /\ \A k \in 1..Len(tokens) : tokens[k] # <<>>

\* tokenize is in the middle of an input with whitespace, tokens emitted, a
\* buffer and characters to read
C12_Witness ==
  /\ pc = "tokenize"
  /\ Len(output) >= 2
  /\ Len(buf) >= 2
  /\ chars # <<>>
  /\ Strip(input) # input

\* --------------------------------------------------------------------- C13
RECURSIVE TokenAtPos(_, _, _)
\* the token of toks that starts at character i of their concatenation, the
\* head of toks starting at character pos; the empty string if none does
TokenAtPos(toks, i, pos) ==
  IF toks = <<>> \/ pos > i THEN <<>>
  ELSE IF pos = i THEN Head(toks)
  ELSE TokenAtPos(Tail(toks), i, pos + Len(Head(toks)))

RECURSIVE OperandRunEnd(_, _)
\* the index of the last of the operand characters that follow s[i] directly
\* (i if none does)
OperandRunEnd(s, i) ==
  IF i < Len(s) /\ IsOperandChar(s[i + 1]) THEN OperandRunEnd(s, i + 1) ELSE i

\* in the returned tokens "+", "*", "/" and "^" are tokens of their own and
\* "-" is a token of its own or the first character of a token
OperatorsStandAlone(toks) ==
  \A k \in 1..Len(toks) : \A j \in 1..Len(toks[k]) :
    /\ toks[k][j] \in {"+", "*", "/", "^"} => Len(toks[k]) = 1
    /\ toks[k][j] = "-" => j = 1

\* in the tokens toks of the valid expression s, a "-" at the start, after
\* "(" or after an operator is one token with the operand that follows it,
\* every other "-" and every "+", "*", "/", "^" is a token of its own
SignsMerged(toks, s) ==
  \A i \in 1..Len(s) :
    /\ s[i] \in {"+", "*", "/", "^"} => TokenAtPos(toks, i, 1) = <<s[i]>>
    /\ s[i] = "-" =>
         IF i = 1 \/ s[i - 1] = "(" \/ s[i - 1] \in OperatorChars
         THEN /\ OperandRunEnd(s, i) > i
              /\ TokenAtPos(toks, i, 1) = SubSeq(s, i, OperandRunEnd(s, i))
         ELSE TokenAtPos(toks, i, 1) = <<"-">>

\* C13: a "-" read in state UNKNOWN or OPERATOR starts a negative operand,
\* to which the operand characters that follow are added; a "-" read in
\* state OPERAND and every "+", "*", "/", "^" becomes a one-character buffer
\* that the next step emits as it is; so in the returned tokens the operators
\* stand alone but for a leading "-", and for a valid expression a "-" at the
\* start, after "(" or after an operator is merged with its operand and a
\* "-" after an operand or ")" is a token of its own.
C13_UnaryMinus ==
  [][ /\ (pc = "tokenize" /\ pc' = "tokenize") =>
           LET char == Head(chars)
           IN  /\ (char = "-" /\ state \in {"UNKNOWN", "OPERATOR"}) =>
                    state' = "OPERAND" /\ buf' = <<"-">>
               /\ (char = "-" /\ state = "OPERAND") =>
                    state' = "OPERATOR" /\ buf' = <<"-">>
               /\ char \in {"+", "*", "/", "^"} =>
                    state' = "OPERATOR" /\ buf' = <<char>>
               /\ (IsOperandChar(char) /\ state = "OPERAND") =>
                    buf' = buf \o <<char>> /\ output' = output
      /\ (pc = "tokenize" /\ state = "OPERATOR" /\ buf # <<>>) =>
           /\ Len(buf) = 1
           /\ Len(output') > Len(output)
           /\ output'[Len(output) + 1] = buf
      /\ (pc = "tokenize" /\ pc' = "call_shunt") =>
           /\ OperatorsStandAlone(tokens')
           /\ IsValid(input) => SignsMerged(tokens', Strip(input))
    ]_vars

\* tokenize has returned, for a valid expression, a "-" token and negative
\* operands at the start and after "("
C13_Witness ==
  /\ pc = "call_shunt"
  /\ IsValid(input)
  /\ \E k \in 1..Len(tokens) : tokens[k] = <<"-">>
  /\ Len(tokens[1]) >= 2 /\ tokens[1][1] = "-"
  /\ \E k \in 2..Len(tokens) :
       tokens[k - 1] = LPAREN /\ Len(tokens[k]) >= 2 /\ tokens[k][1] = "-"

\* --------------------------------------------------------------------- C14
\* toks is a chain x1 op x2 op ... op xn of one operator, without parentheses
IsChain(toks) ==
  /\ Len(toks) >= 3
  /\ Len(toks) % 2 = 1
  /\ \A k \in 1..Len(toks) :
       IF k % 2 = 0 THEN IsOp(toks[k]) /\ toks[k] = toks[2]
       ELSE ~IsOp(toks[k]) /\ toks[k] \notin {LPAREN, RPAREN}

RECURSIVE LeftGrouped(_)
\* x1 x2 op x3 op ... xn op for the chain toks
LeftGrouped(toks) ==
  IF Len(toks) = 1 THEN toks
  ELSE LeftGrouped(SubSeq(toks, 1, Len(toks) - 2))
       \o <<toks[Len(toks)], toks[Len(toks) - 1]>>

RECURSIVE RightGrouped(_)
\* x1 x2 ... xn op op ... op for the chain toks
RightGrouped(toks) ==
  IF Len(toks) = 1 THEN toks
  ELSE <<toks[1]>> \o RightGrouped(SubSeq(toks, 3, Len(toks))) \o <<toks[2]>>

\* the stack top that an incoming operator pops, in the words of the rule:
\* an operator of greater precedence, or of equal precedence and LEFT
\* associativity
PopsTop(top, op) ==
  /\ IsOp(top)
  /\ \/ precedence(top[1]) > precedence(op[1])
     \/ precedence(top[1]) = precedence(op[1]) /\ top \in {<<c>> : c \in {"+", "-", "*", "/"}}

\* C14: an incoming operator pops the stack tops exactly as long as PopsTop
\* holds, to the output in the order popped, and is then pushed; and shunt
\* returns a chain of "+", "-", "*" or "/" grouped left-to-right and a chain
\* of "^" grouped right-to-left.
C14_Associativity ==
  [][ /\ (pc = "shunt" /\ pc' = "shunt" /\ IsOp(Head(tokens))) =>
           LET op == Head(tokens)
               n == Len(operators)
               m == Len(operators') - 1
           IN  /\ m \in 0..n
               /\ operators' = Append(SubSeq(operators, 1, m), op)
               /\ \A j \in (m + 1)..n : PopsTop(operators[j], op)
               /\ m >= 1 => ~PopsTop(operators[m], op)
               /\ output' = output \o Reverse(SubSeq(operators, m + 1, n))
      /\ (pc = "shunt" /\ pc' = "call_restore" /\ IsChain(Tokenize(input))) =>
           postfix_list' = IF Tokenize(input)[2] = <<"^">>
                           THEN RightGrouped(Tokenize(input))
                           ELSE LeftGrouped(Tokenize(input))
    ]_vars

\* shunt has returned for a chain of three "^"
C14_Witness ==
  /\ pc = "call_restore"
  /\ IsChain(Tokenize(input))
  /\ Len(postfix_list) >= 7
  /\ Last(postfix_list) = <<"^">>

\* --------------------------------------------------------------------- C17
\* C17: after every token the stack of shunt holds only operators and "(",
\* and of two adjacent operators on it the upper one has the greater
\* precedence, or both are "^".
C17_StackInvariant ==
  pc = "shunt" =>
    /\ \A k \in 1..Len(operators) : IsOp(operators[k]) \/ operators[k] = LPAREN
    /\ \A k \in 1..(Len(operators) - 1) :
         (IsOp(operators[k]) /\ IsOp(operators[k + 1])) =>
           \/ precedence(operators[k][1]) < precedence(operators[k + 1][1])
           \/ operators[k] = <<"^">> /\ operators[k + 1] = <<"^">>

\* the stack holds an operator, a "(" and above it two "^"
C17_Witness ==
  /\ pc = "shunt"
  /\ Len(operators) >= 4
  /\ \E k \in 1..(Len(operators) - 2) :
       /\ operators[k] = LPAREN
       /\ operators[k + 1] = <<"^">>
       /\ operators[k + 2] = <<"^">>
  /\ IsOp(operators[1])

\* --------------------------------------------------------------------- C15
RECURSIVE UnmatchedFrom(_, _, _)
\* the index of the first ")" of toks with no "(" open before it, the head
\* of toks having index k and depth "(" being open; 0 if there is none
UnmatchedFrom(toks, k, depth) ==
  IF toks = <<>> THEN 0
  ELSE IF Head(toks) = RPAREN
       THEN IF depth = 0 THEN k ELSE UnmatchedFrom(Tail(toks), k + 1, depth - 1)
       ELSE UnmatchedFrom(Tail(toks), k + 1,
                          IF Head(toks) = LPAREN THEN depth + 1 ELSE depth)

UnmatchedClose(toks) == UnmatchedFrom(toks, 1, 0)

\* toks without the token at index k
WithoutToken(toks, k) == SubSeq(toks, 1, k - 1) \o SubSeq(toks, k + 1, Len(toks))

\* toks is the token list of a valid expression with one ")" too many
OneExtraParen(toks) ==
  /\ UnmatchedClose(toks) > 0
  /\ IsValid(Concat(WithoutToken(toks, UnmatchedClose(toks))))
  /\ Tokenize(Concat(WithoutToken(toks, UnmatchedClose(toks))))
       = WithoutToken(toks, UnmatchedClose(toks))

\* C15 as stated: for a token sequence that is well-formed but for one ")"
\* with no matching "(", shunt returns the postfix sequence of the token
\* sequence without that ")".
C15_UnmatchedIgnored ==
  (pc = "call_restore" /\ OneExtraParen(Tokenize(input))) =>
    postfix_list =
      Shunt(WithoutToken(Tokenize(input), UnmatchedClose(Tokenize(input))))

\* C15 as amended: for such a token sequence shunt raises no error and
\* returns the postfix sequence of the tokens before the unmatched ")"
\* followed by the postfix sequence of the tokens after it, without the ")".
C15_UnmatchedSplits ==
  (pc = "call_restore" /\ OneExtraParen(Tokenize(input))) =>
    LET toks == Tokenize(input)
        k == UnmatchedClose(toks)
    IN  postfix_list = Shunt(SubSeq(toks, 1, k - 1))
                       \o Shunt(SubSeq(toks, k + 1, Len(toks)))

\* shunt has returned for an unmatched ")" between two operators, with a
\* postfix other than that of the tokens without the ")"
C15_Witness ==
  /\ pc = "call_restore"
  /\ OneExtraParen(Tokenize(input))
  /\ Len(postfix_list) >= 5
  /\ postfix_list #
       Shunt(WithoutToken(Tokenize(input), UnmatchedClose(Tokenize(input))))

\* --------------------------------------------------------------------- C16
\* C16: when shunt returns, the list it was given holds the elements it held
\* before the call, so that a second call on it returns the same postfix
\* sequence.
C16_ArgumentUnchanged ==
  pc = "call_restore" =>
    /\ tokens = Tokenize(input)
    /\ Shunt(tokens) = postfix_list

====
